---- MODULE Spec2Model ----
(***************************************************************************)
(* Natural-language-to-SQL pipeline of run.py and the bootstrap script     *)
(* init_db.py.  Text is modelled character by character (a str is a tuple  *)
(* of one-character strings) so that strip/replace/split/upper/startswith  *)
(* act as the Python built-ins do; the grave accent, which a TLA+ string   *)
(* cannot hold, is the element "backtick".  The SQLite store and the       *)
(* generative                                                              *)
(* model are the environment: the store answers a fixed repertoire of      *)
(* statements, the model answers any text of a fixed repertoire.           *)
(***************************************************************************)
EXTENDS Integers, Sequences, FiniteSets, TLC

VARIABLES
    store,            \* the file student.db: [exists, tables]
    pc,               \* position of the Execute-button handler
    question,         \* st.text_input value of the running request
    relevant_tables,  \* run.py:161
    schema_info,      \* run.py:166
    sql_query,        \* run.py:170
    result,           \* run.py:175
    ui,               \* last message the handler rendered
    calls,            \* history: functions called by the running request, in order
    raised,           \* history: functions an exception propagated out of
    escaped,          \* history: exception that left the handler, or "none"
    sel,              \* history: inputs of identify_relevant_tables
    genText,          \* history: raw answer to the query-generation prompt
    exec,             \* history: what the store did with the executed statement
    dropped,          \* history: the latest request dropped STUDENT from the
                      \*          bootstrapped store, and init_database has not run since
    afterDrop,        \* history: dropped, as it was when the running request began
    initRuns,         \* history: consecutive runs of init_database
    initFrom,         \* history: the kind of store the first of those runs found
    writes,           \* history: statements that changed the store since init_database
    storeAtClick      \* history: the store when the running request began

vars == <<store, pc, question, relevant_tables, schema_info, sql_query, result,
          ui, calls, raised, escaped, sel, genText, exec, dropped, afterDrop,
          initRuns, initFrom, writes, storeAtClick>>

(***************************************************************************)
(* Bounds                                                                  *)
(***************************************************************************)
MaxWrites == 2
MaxInitRuns == 2

(***************************************************************************)
(* Python str built-ins                                                    *)
(***************************************************************************)
Whitespace == {" ", "\n", "\t"}

LowerCase == <<"a","b","c","d","e","f","g","h","i","j","k","l","m",
           "n","o","p","q","r","s","t","u","v","w","x","y","z">>

UpperCase == <<"A","B","C","D","E","F","G","H","I","J","K","L","M",
           "N","O","P","Q","R","S","T","U","V","W","X","Y","Z">>

UpperChar(c) ==
    IF \E i \in 1..26 : LowerCase[i] = c
    THEN UpperCase[CHOOSE i \in 1..26 : LowerCase[i] = c]
    ELSE c

upper(s) == [i \in 1..Len(s) |-> UpperChar(s[i])]

Min(S) == CHOOSE m \in S : \A n \in S : m <= n

Max(S) == CHOOSE m \in S : \A n \in S : m >= n

\* the positions of s that hold no whitespace
Solid(s) == {i \in 1..Len(s) : s[i] \notin Whitespace}

lstrip(s) == IF Solid(s) = {} THEN << >> ELSE SubSeq(s, Min(Solid(s)), Len(s))

rstrip(s) == IF Solid(s) = {} THEN << >> ELSE SubSeq(s, 1, Max(Solid(s)))

strip(s) == rstrip(lstrip(s))

startswith(s, prefix) ==
    /\ Len(prefix) <= Len(s)
    /\ SubSeq(s, 1, Len(prefix)) = prefix

RECURSIVE replace(_, _, _)
replace(s, old, new) ==
    IF Len(s) < Len(old) THEN s
    ELSE IF startswith(s, old)
         THEN new \o replace(SubSeq(s, Len(old) + 1, Len(s)), old, new)
         ELSE <<Head(s)>> \o replace(Tail(s), old, new)

\* str.split() without argument: the maximal runs of non-whitespace
RECURSIVE split(_)
\* the words of t, which starts with a word of n characters
split_word(t, n) == <<SubSeq(t, 1, n)>> \o split(SubSeq(t, n + 1, Len(t)))

\* the words of t, which does not start with whitespace
split_stripped(t, ws) ==
    IF t = << >> THEN << >>
    ELSE split_word(t, IF ws = {} THEN Len(t) ELSE Min(ws) - 1)

split(s) ==
    split_stripped(lstrip(s), {i \in 1..Len(lstrip(s)) : lstrip(s)[i] \in Whitespace})

\* str.split(sep) for a one-character separator: empty pieces are kept
RECURSIVE split_sep(_, _)
split_at(s, sep, at) ==
    IF at = {} THEN <<s>>
    ELSE <<SubSeq(s, 1, Min(at) - 1)>> \o split_sep(SubSeq(s, Min(at) + 1, Len(s)), sep)

split_sep(s, sep) == split_at(s, sep, {i \in 1..Len(s) : s[i] = sep})

RECURSIVE join(_, _)
join(sep, parts) ==
    IF parts = << >> THEN << >>
    ELSE IF Len(parts) = 1 THEN parts[1]
    ELSE parts[1] \o sep \o join(sep, Tail(parts))

Digits == <<"0","1","2","3","4","5","6","7","8","9">>

\* str(n) inside an f-string
RECURSIVE str_int(_)
str_int(n) ==
    IF n < 0 THEN <<"-">> \o str_int(0 - n)
    ELSE IF n < 10 THEN <<Digits[n + 1]>>
    ELSE str_int(n \div 10) \o <<Digits[(n % 10) + 1]>>

Range(s) == {s[i] : i \in 1..Len(s)}

None == [none |-> TRUE]

Str(chars) == [text |-> chars]

(***************************************************************************)
(* The store: init_db.py                                                   *)
(***************************************************************************)
STUDENT == <<"S","T","U","D","E","N","T">>

COURSE == <<"C","O","U","R","S","E">>

sample_data ==
    << <<<<"K","r","i","s","h">>,   <<"D","a","t","a"," ","S","c","i","e","n","c","e">>,     <<"A">>, 90>>,
       <<<<"M","a","n","o","h","a","r">>, <<"M","a","c","h","i","n","e"," ","L","e","a","r","n","i","n","g">>, <<"A">>, 90>>,
       <<<<"A","b","h","i","n","a","v">>, <<"P","y","t","h","o","n">>,           <<"A">>, 90>>,
       <<<<"A","n","e","e","s","h">>,  <<"S","Q","L">>,              <<"A">>, 90>>,
       <<<<"R","a","h","u","l">>,   <<"F","C","S">>,              <<"A">>, 90>> >>

StudentColumns ==
    << <<<<"N","A","M","E">>,    <<"V","A","R","C","H","A","R","(","2","5",")">>>>,
       <<<<"C","L","A","S","S">>,   <<"V","A","R","C","H","A","R","(","2","5",")">>>>,
       <<<<"S","E","C","T","I","O","N">>, <<"V","A","R","C","H","A","R","(","2","5",")">>>>,
       <<<<"M","A","R","K","S">>,   <<"I","N","T">>>> >>

NoFile == [exists |-> FALSE, tables |-> << >>]

HasTable(tables, name) == \E i \in 1..Len(tables) : tables[i].name = name

TableIndex(tables, name) == CHOOSE i \in 1..Len(tables) : tables[i].name = name

RowsOf(tables, name) == tables[TableIndex(tables, name)].rows

\* variant: the existing file is kept
os_remove_skipped(s) == s

\* init_db.py:6-7
os_remove(s) == IF s.exists THEN NoFile ELSE s

\* CREATE TABLE IF NOT EXISTS STUDENT(...)
create_student(tables) ==
    IF HasTable(tables, STUDENT) THEN tables
    ELSE Append(tables, [name |-> STUDENT, columns |-> StudentColumns,
                         pk |-> 0, rows |-> << >>])

\* cursor.executemany('INSERT INTO STUDENT VALUES (?,?,?,?)', rows)
executemany(tables, name, rows) ==
    [tables EXCEPT ![TableIndex(tables, name)].rows = @ \o rows]

init_database(s) ==
    LET removed == os_remove(s)
        created == create_student(removed.tables)
    IN  [exists |-> TRUE, tables |-> executemany(created, STUDENT, sample_data)]

Bootstrapped == init_database(NoFile)

(***************************************************************************)
(* SQLite as run.py uses it.  sqlite_prepare gives the statements the      *)
(* store recognises; any other text is a syntax error.                     *)
(***************************************************************************)
ConnectOutcomes == {"ok", "unable_to_open", "io_error"}

NoExc == [cls |-> "none", text |-> << >>]

OperationalError(text) == [cls |-> "sqlite3.OperationalError", text |-> text]

IntegrityError(text) == [cls |-> "sqlite3.IntegrityError", text |-> text]

sqlite_prepare(sql) ==
    CASE sql = <<"S","E","L","E","C","T"," ","*"," ","F","R","O","M"," ","S","T","U","D","E","N","T"," ","W","H","E","R","E"," ","M","A","R","K","S"," ",">"," ","8","0">> ->
            [verb |-> "SELECT", table |-> STUDENT, where |-> "MARKS > 80"]
      [] sql = <<"s","e","l","e","c","t"," ","*"," ","f","r","o","m"," ","S","T","U","D","E","N","T">> ->
            [verb |-> "SELECT", table |-> STUDENT, where |-> "TRUE"]
      [] sql = <<"S","E","L","E","C","T","*","F","R","O","M"," ","S","T","U","D","E","N","T">> ->
            [verb |-> "SELECT", table |-> STUDENT, where |-> "TRUE"]
      [] sql = <<"D","R","O","P"," ","T","A","B","L","E"," ","S","T","U","D","E","N","T">> ->
            [verb |-> "DROP", table |-> STUDENT]
      [] sql = <<"D","E","L","E","T","E"," ","F","R","O","M"," ","S","T","U","D","E","N","T">> ->
            [verb |-> "DELETE", table |-> STUDENT, where |-> "TRUE"]
      [] sql = <<"U","P","D","A","T","E"," ","S","T","U","D","E","N","T"," ","S","E","T"," ","M","A","R","K","S","=","0"," ","W","H","E","R","E"," ","M","A","R","K","S","<","0">> ->
            [verb |-> "UPDATE", table |-> STUDENT, where |-> "MARKS < 0", marks |-> 0]
      [] sql = <<"U","P","D","A","T","E","[","S","T","U","D","E","N","T","]","S","E","T"," ","M","A","R","K","S","=","9","1">> ->
            [verb |-> "UPDATE", table |-> STUDENT, where |-> "TRUE", marks |-> 91]
      [] sql = <<"I","N","S","E","R","T"," ","I","N","T","O"," ","S","T","U","D","E","N","T"," ","V","A","L","U","E","S"," ","(","'","Z","e","d","'",",","'","S","Q","L","'",",","'","B","'",",","7","0",")">> ->
            [verb |-> "INSERT", table |-> STUDENT,
             row |-> <<<<"Z","e","d">>, <<"S","Q","L">>, <<"B">>, 70>>]
      [] sql = <<"C","R","E","A","T","E"," ","T","A","B","L","E"," ","I","F"," ","N","O","T"," ","E","X","I","S","T","S"," ","C","O","U","R","S","E","(","I","D"," ","I","N","T"," ","P","R","I","M","A","R","Y"," ","K","E","Y",")">> ->
            [verb |-> "CREATE", table |-> COURSE,
             columns |-> << <<<<"I","D">>, <<"I","N","T">>>> >>, pk |-> 1]
      [] sql = <<"I","N","S","E","R","T"," ","I","N","T","O"," ","C","O","U","R","S","E"," ","V","A","L","U","E","S"," ","(","1",")">> ->
            [verb |-> "INSERT", table |-> COURSE, row |-> <<1>>]
      [] OTHER ->
            [verb |-> "SYNTAX", near |-> IF split(sql) = << >> THEN << >> ELSE split(sql)[1]]

Matches(row, where) ==
    CASE where = "TRUE" -> TRUE
      [] where = "MARKS > 80" -> row[4] > 80
      [] where = "MARKS < 0" -> row[4] < 0

DropTable(tables, name) ==
    LET Keep(t) == t.name # name IN SelectSeq(tables, Keep)

Fail(st, tables, e) ==
    [exc |-> e, raw |-> e, verb |-> st.verb, rowcount |-> -1,
     tables |-> tables, rows |-> << >>]

Done(st, n, after, rows) ==
    [exc |-> NoExc, raw |-> NoExc, verb |-> st.verb, rowcount |-> n,
     tables |-> after, rows |-> rows]

HitRows(rows, where) == LET Hit(r) == Matches(r, where) IN SelectSeq(rows, Hit)

MissRows(rows, where) == LET Miss(r) == ~Matches(r, where) IN SelectSeq(rows, Miss)

\* statement st on table k of tables
sqlite_step(st, tables, k) ==
    CASE st.verb = "SELECT" -> Done(st, -1, tables, HitRows(tables[k].rows, st.where))
      [] st.verb = "DROP" -> Done(st, -1, DropTable(tables, st.table), << >>)
      [] st.verb = "DELETE" ->
            Done(st, Len(HitRows(tables[k].rows, st.where)),
                 [tables EXCEPT ![k].rows = MissRows(@, st.where)], << >>)
      [] st.verb = "UPDATE" ->
            Done(st, Len(HitRows(tables[k].rows, st.where)),
                 [tables EXCEPT ![k].rows =
                     [i \in 1..Len(@) |->
                         IF Matches(@[i], st.where) THEN [@[i] EXCEPT ![4] = st.marks]
                         ELSE @[i]]], << >>)
      [] st.verb = "INSERT" ->
            IF /\ tables[k].pk # 0
               /\ \E i \in 1..Len(tables[k].rows) :
                     tables[k].rows[i][tables[k].pk] = st.row[tables[k].pk]
            THEN Fail(st, tables,
                      IntegrityError(<<"U","N","I","Q","U","E"," ","c","o","n","s","t","r","a","i","n","t"," ","f","a","i","l","e","d",":"," ">> \o tables[k].name
                                     \o <<".">> \o tables[k].columns[tables[k].pk][1]))
            ELSE Done(st, 1, [tables EXCEPT ![k].rows = Append(@, st.row)], << >>)

\* What the store does with the prepared statement st: the exception it raises
\* (or NoExc), cursor.rowcount, the tables afterwards and the rows a SELECT yields.
sqlite_run(st, conn, tables) ==
    IF conn = "io_error" THEN Fail(st, tables, OperationalError(<<"d","i","s","k"," ","I","/","O"," ","e","r","r","o","r">>))
    ELSE IF st.verb = "SYNTAX"
    THEN Fail(st, tables, OperationalError(<<"n","e","a","r"," ","\"">> \o st.near \o <<"\"",":"," ","s","y","n","t","a","x"," ","e","r","r","o","r">>))
    ELSE IF st.verb = "CREATE"
    THEN IF HasTable(tables, st.table) THEN Done(st, -1, tables, << >>)
         ELSE Done(st, -1, Append(tables, [name |-> st.table, columns |-> st.columns,
                                           pk |-> st.pk, rows |-> << >>]), << >>)
    ELSE IF ~HasTable(tables, st.table)
    THEN Fail(st, tables, OperationalError(<<"n","o"," ","s","u","c","h"," ","t","a","b","l","e",":"," ">> \o st.table))
    ELSE sqlite_step(st, tables, TableIndex(tables, st.table))

sqlite_execute(sql, conn, tables) == sqlite_run(sqlite_prepare(sql), conn, tables)

\* pandas runs the SELECT on the connection and re-raises the store's error as its own
pandas_reraise(sql, run) ==
    IF run.exc = NoExc THEN run
    ELSE [run EXCEPT !.exc = [cls |-> "pandas.errors.DatabaseError",
                              text |-> <<"E","x","e","c","u","t","i","o","n"," ","f","a","i","l","e","d"," ","o","n"," ","s","q","l"," ","'">> \o sql
                                       \o <<"'",":"," ">> \o run.exc.text]]

pd_read_sql_query(sql, conn, tables) == pandas_reraise(sql, sqlite_execute(sql, conn, tables))

(***************************************************************************)
(* run.py: the four stages                                                 *)
(***************************************************************************)
\* A dict is a sequence of [key, value] entries in insertion order.
dict_keys(d) == [i \in 1..Len(d) |-> d[i].key]

dict_get(d, key, default) ==
    IF \E i \in 1..Len(d) : d[i].key = key
    THEN d[CHOOSE i \in 1..Len(d) : d[i].key = key].value
    ELSE default

\* run.py:25
column_descriptor(col) == col[1] \o <<" ","(">> \o col[2] \o <<")">>

get_table_schema(conn, s) ==
    IF conn = "unable_to_open"
    THEN \* line 14 raises, 28-30 handle it, then line 32 reads the unbound conn
         [raised |-> "UnboundLocalError", value |-> << >>]
    ELSE IF conn = "io_error"
    THEN [raised |-> "none", value |-> << >>]
    ELSE [raised |-> "none",
          value |-> [i \in 1..Len(s.tables) |->
                       [key |-> s.tables[i].name,
                        value |-> [j \in 1..Len(s.tables[i].columns) |->
                                     column_descriptor(s.tables[i].columns[j])]]]]

NoResponse == [called |-> FALSE, ok |-> FALSE, text |-> << >>]

ModelError == [called |-> TRUE, ok |-> FALSE, text |-> << >>]

Response(chars) == [called |-> TRUE, ok |-> TRUE, text |-> chars]

\* run.py:51
strip_each(parts) == [i \in 1..Len(parts) |-> strip(parts[i])]

parse_tables(text) == strip_each(split_sep(text, ","))

\* run.py:54
valid_tables(tables, available_tables) ==
    LET Valid(t) == t \in Range(available_tables) IN SelectSeq(tables, Valid)

\* run.py:55-57
fallback(valid, available_tables) == IF valid = << >> THEN available_tables ELSE valid

\* variant: the fallback of run.py:55-56 left out
identify_relevant_tables_no_fallback(schema, response) ==
    IF schema.raised # "none" \/ ~response.ok THEN << >>
    ELSE valid_tables(parse_tables(response.text), dict_keys(schema.value))

\* variant: a failed model call treated like an answer naming no known table
identify_relevant_tables_error_fallback(schema, response) ==
    IF schema.raised # "none" THEN << >>
    ELSE IF ~response.ok THEN dict_keys(schema.value)
    ELSE fallback(valid_tables(parse_tables(response.text), dict_keys(schema.value)),
                  dict_keys(schema.value))

identify_relevant_tables(schema, response) ==
    IF schema.raised # "none" \/ ~response.ok THEN << >>
    ELSE fallback(valid_tables(parse_tables(response.text), dict_keys(schema.value)),
                  dict_keys(schema.value))

Keywords == {<<"S","E","L","E","C","T">>, <<"I","N","S","E","R","T">>, <<"U","P","D","A","T","E">>, <<"D","E","L","E","T","E">>,
             <<"C","R","E","A","T","E">>, <<"A","L","T","E","R">>, <<"D","R","O","P">>}

\* run.py:88-90
clean_query(text) ==
    join(<<" ">>, split(replace(replace(strip(text), <<"backtick","backtick","backtick","s","q","l">>, << >>), <<"backtick","backtick","backtick">>, << >>)))

\* run.py:93-94
passes_gate(query) == \E keyword \in Keywords : startswith(upper(query), keyword)

\* run.py:93-97
validate(query) == IF ~passes_gate(query) THEN None ELSE Str(query)

\* variant: the check of run.py:93-95 left out
generate_sql_query_unvalidated(response) ==
    IF ~response.ok THEN None ELSE Str(clean_query(response.text))

generate_sql_query(response) ==
    IF ~response.ok THEN None ELSE validate(clean_query(response.text))

\* variant: the except clause of run.py:136-137 left out
except_clause_generic(e) ==
    [success |-> FALSE, error |-> <<"U","n","e","x","p","e","c","t","e","d"," ","e","r","r","o","r",":"," ">> \o e.text]

\* run.py:136-139
except_clause(e) ==
    IF e.cls = "sqlite3.OperationalError"
    THEN [success |-> FALSE, error |-> <<"D","a","t","a","b","a","s","e"," ","e","r","r","o","r",":"," ">> \o e.text]
    ELSE [success |-> FALSE, error |-> <<"U","n","e","x","p","e","c","t","e","d"," ","e","r","r","o","r",":"," ">> \o e.text]

NoRun == [exc |-> NoExc, raw |-> NoExc, verb |-> "NONE", rowcount |-> -1,
          tables |-> << >>, rows |-> << >>]

\* run.py:111-134, once the statement has run without an exception
success_result(sql_type, run) ==
    CASE sql_type = <<"S","E","L","E","C","T">> ->
            [success |-> TRUE, data |-> run.rows,
             message |-> <<"Q","u","e","r","y"," ","e","x","e","c","u","t","e","d"," ","s","u","c","c","e","s","s","f","u","l","l","y">>]
      [] sql_type = <<"I","N","S","E","R","T">> ->
            [success |-> TRUE, message |-> <<"S","u","c","c","e","s","s","f","u","l","l","y"," ","i","n","s","e","r","t","e","d"," ">>
                                \o str_int(run.rowcount) \o <<" ","r","o","w","(","s",")">>]
      [] sql_type = <<"U","P","D","A","T","E">> ->
            [success |-> TRUE, message |-> <<"S","u","c","c","e","s","s","f","u","l","l","y"," ","u","p","d","a","t","e","d"," ">>
                                \o str_int(run.rowcount) \o <<" ","r","o","w","(","s",")">>]
      [] sql_type = <<"D","E","L","E","T","E">> ->
            [success |-> TRUE, message |-> <<"S","u","c","c","e","s","s","f","u","l","l","y"," ","d","e","l","e","t","e","d"," ">>
                                \o str_int(run.rowcount) \o <<" ","r","o","w","(","s",")">>]
      [] sql_type \in {<<"C","R","E","A","T","E">>, <<"A","L","T","E","R">>, <<"D","R","O","P">>} ->
            [success |-> TRUE, message |-> <<"S","c","h","e","m","a"," ","m","o","d","i","f","i","c","a","t","i","o","n"," ","c","o","m","p","l","e","t","e","d"," ","s","u","c","c","e","s","s","f","u","l","l","y">>]
      [] OTHER -> None

\* an exception reaches the except clauses of run.py:136-139
Caught(s, e, run) == [result |-> except_clause(e), store |-> s, exc |-> e, run |-> run]

\* run.py:111-139 once the store has answered
outcome(sql_type, s, run) ==
    IF run.exc # NoExc THEN Caught(s, run.exc, run)
    ELSE [result |-> success_result(sql_type, run),
          store |-> [s EXCEPT !.tables = run.tables],
          exc |-> NoExc, run |-> run]

\* run.py:109-134
dispatch(words, sql, conn, s) ==
    IF words = << >>
    THEN Caught(s, [cls |-> "IndexError", text |-> <<"l","i","s","t"," ","i","n","d","e","x"," ","o","u","t"," ","o","f"," ","r","a","n","g","e">>], NoRun)
    ELSE outcome(words[1], s,
                 IF words[1] = <<"S","E","L","E","C","T">>
                 THEN pd_read_sql_query(sql, conn, s.tables)
                 ELSE sqlite_execute(sql, conn, s.tables))

\* Returns the function's value, the store afterwards, the exception its except
\* clauses caught and what the store did.
execute_sql_query(sql, conn, s) ==
    IF conn = "unable_to_open"
    THEN Caught(s, OperationalError(<<"u","n","a","b","l","e"," ","t","o"," ","o","p","e","n"," ","d","a","t","a","b","a","s","e"," ","f","i","l","e">>), NoRun)
    ELSE dispatch(split(upper(strip(sql))), sql, conn, s)

(***************************************************************************)
(* Inputs                                                                  *)
(***************************************************************************)
SelectQuestion == <<"L","i","s","t"," ","a","l","l"," ","s","t","u","d","e","n","t","s"," ","w","i","t","h"," ","m","a","r","k","s"," ","a","b","o","v","e"," ","8","0">>

Questions == {<< >>, SelectQuestion}

\* answers of the model to the table-identification prompt
SelResponses ==
    { Response(<<"S","T","U","D","E","N","T">>),
      Response(<<" ","S","T","U","D","E","N","T"," ",","," ","C","O","U","R","S","E","\n">>),
      Response(<<"S","T","U","D","E","N","T",",","S","T","U","D","E","N","T">>),
      Response(<<"C","O","U","R","S","E",","," ","M","A","R","K","S">>),
      Response(<<"T","h","e"," ","t","a","b","l","e"," ","i","s"," ","s","t","u","d","e","n","t",".">>),
      ModelError }

CannotDetermine == <<"I"," ","c","a","n","n","o","t"," ","d","e","t","e","r","m","i","n","e"," ","a"," ","q","u","e","r","y">>

DropStudent == <<"D","R","O","P"," ","T","A","B","L","E"," ","S","T","U","D","E","N","T">>

\* answers of the model to the query-generation prompt
GenResponses ==
    { Response(<<"S","E","L","E","C","T"," ","*"," ","F","R","O","M"," ","S","T","U","D","E","N","T"," ","W","H","E","R","E"," ","M","A","R","K","S"," ",">"," ","8","0">>),
      Response(<<"backtick","backtick","backtick","s","q","l","\n","s","e","l","e","c","t"," ","*"," ","f","r","o","m"," ","S","T","U","D","E","N","T","\n","backtick","backtick","backtick">>),
      Response(DropStudent),
      Response(CannotDetermine),
      Response(<<"S","E","L","E","C","T","*","F","R","O","M"," ","S","T","U","D","E","N","T">>),
      Response(<<"S","E","L","E","C","T","E","D">>),
      Response(<<" "," ","D","E","L","E","T","E"," "," "," ","F","R","O","M","\n","S","T","U","D","E","N","T"," ">>),
      Response(<<"U","P","D","A","T","E"," ","S","T","U","D","E","N","T"," ","S","E","T"," ","M","A","R","K","S","=","0"," ","W","H","E","R","E"," ","M","A","R","K","S","<","0">>),
      Response(<<"U","P","D","A","T","E","[","S","T","U","D","E","N","T","]","S","E","T"," ","M","A","R","K","S","=","9","1">>),
      Response(<<"I","N","S","E","R","T"," ","I","N","T","O"," ","S","T","U","D","E","N","T"," ","V","A","L","U","E","S"," ","(","'","Z","e","d","'",",","'","S","Q","L","'",",","'","B","'",",","7","0",")">>),
      Response(<<"C","R","E","A","T","E"," ","T","A","B","L","E"," ","I","F"," ","N","O","T"," ","E","X","I","S","T","S"," ","C","O","U","R","S","E","(","I","D"," ","I","N","T"," ","P","R","I","M","A","R","Y"," ","K","E","Y",")">>),
      Response(<<"I","N","S","E","R","T"," ","I","N","T","O"," ","C","O","U","R","S","E"," ","V","A","L","U","E","S"," ","(","1",")">>),
      ModelError }

(***************************************************************************)
(* The Execute-button handler (run.py:155-192) and the bootstrap script    *)
(***************************************************************************)
NoExec == [none |-> TRUE]

NoUi == [level |-> "none", text |-> << >>]

Ui(level, text) == [level |-> level, text |-> text]

NoSel == [available |-> << >>, response |-> NoResponse]

\* variant: the test of run.py:162 left out
proceeds_always(tables) == TRUE

\* run.py:162
proceeds(tables) == tables # << >>

\* run.py:171
truthy(query) == query # None /\ query.text # << >>

\* the positions at which each key of a dict comprehension over tables first occurs
first_positions(tables) ==
    LET First(i) == \A j \in 1..(i - 1) : tables[j] # tables[i]
    IN  SelectSeq([i \in 1..Len(tables) |-> i], First)

\* the position whose value a dict comprehension over tables keeps for key t
last_position(tables, t) == Max({i \in 1..Len(tables) : tables[i] = t})

scoped_entries(tables, schemas, keys) ==
    [n \in 1..Len(keys) |->
        [key |-> tables[keys[n]],
         value |-> dict_get(schemas[last_position(tables, tables[keys[n]])].value,
                            tables[keys[n]], << >>)]]

\* run.py:166-167
scoped_schema(tables, schemas) == scoped_entries(tables, schemas, first_positions(tables))

Init ==
    /\ store = NoFile
    /\ pc = "idle"
    /\ question = << >>
    /\ relevant_tables = << >>
    /\ schema_info = << >>
    /\ sql_query = None
    /\ result = None
    /\ ui = NoUi
    /\ calls = << >>
    /\ raised = {}
    /\ escaped = "none"
    /\ sel = NoSel
    /\ genText = NoResponse
    /\ exec = NoExec
    /\ dropped = FALSE
    /\ afterDrop = FALSE
    /\ initRuns = 0
    /\ initFrom = "none"
    /\ writes = 0
    /\ storeAtClick = NoFile

StoreKind(s) ==
    IF ~s.exists THEN "no file"
    ELSE IF s = Bootstrapped THEN "bootstrapped"
    ELSE "changed"

\* python init_db.py, run between two requests; the page starts afresh
InitDatabase ==
    /\ pc \in {"idle", "done"}
    /\ initRuns < MaxInitRuns
    /\ store' = init_database(store)
    /\ initRuns' = initRuns + 1
    /\ initFrom' = IF initRuns = 0 THEN StoreKind(store) ELSE initFrom
    /\ pc' = "idle"
    /\ question' = << >>
    /\ relevant_tables' = << >>
    /\ schema_info' = << >>
    /\ sql_query' = None
    /\ result' = None
    /\ ui' = NoUi
    /\ calls' = << >>
    /\ raised' = {}
    /\ escaped' = "none"
    /\ sel' = NoSel
    /\ genText' = NoResponse
    /\ exec' = NoExec
    /\ dropped' = FALSE
    /\ afterDrop' = FALSE
    /\ writes' = 0
    /\ storeAtClick' = NoFile

\* run.py:148-157: the button pressed; an empty question only warns
Click ==
    /\ pc \in {"idle", "done"}
    /\ store.exists
    /\ \E q \in Questions :
        /\ question' = q
        /\ IF q = << >>
           THEN /\ ui' = Ui("warning", <<"P","l","e","a","s","e"," ","e","n","t","e","r"," ","a"," ","q","u","e","s","t","i","o","n">>)
                /\ pc' = "done"
                /\ afterDrop' = FALSE
                /\ UNCHANGED <<dropped, initRuns, initFrom>>
           ELSE /\ ui' = NoUi
                /\ pc' = "identify"
                /\ afterDrop' = dropped
                /\ dropped' = FALSE
                /\ initRuns' = 0
                /\ initFrom' = "none"
    /\ relevant_tables' = << >>
    /\ schema_info' = << >>
    /\ sql_query' = None
    /\ result' = None
    /\ calls' = << >>
    /\ raised' = {}
    /\ escaped' = "none"
    /\ sel' = NoSel
    /\ genText' = NoResponse
    /\ exec' = NoExec
    /\ storeAtClick' = store
    /\ UNCHANGED <<store, writes>>

\* run.py:161-163 and 191-192
IdentifyStage ==
    /\ pc = "identify"
    /\ \E conn \in ConnectOutcomes :
       \E response \in (IF conn = "unable_to_open" THEN {NoResponse} ELSE SelResponses) :
       \E schema \in {get_table_schema(conn, store)} :
       \E tables \in {identify_relevant_tables(schema, response)} :
            /\ relevant_tables' = tables
            /\ calls' = <<"identify_relevant_tables", "get_table_schema">>
            /\ raised' = IF schema.raised = "none" THEN {} ELSE {"get_table_schema"}
            /\ sel' = [available |-> dict_keys(schema.value), response |-> response]
            /\ IF proceeds(tables)
               THEN /\ ui' = Ui("info", <<"R","e","l","e","v","a","n","t"," ","t","a","b","l","e","s"," ","i","d","e","n","t","i","f","i","e","d",":"," ">> \o join(<<","," ">>, tables))
                    /\ pc' = "schema"
               ELSE /\ ui' = Ui("error", <<"N","o"," ","r","e","l","e","v","a","n","t"," ","t","a","b","l","e","s"," ","i","d","e","n","t","i","f","i","e","d">>)
                    /\ pc' = "done"
    /\ UNCHANGED <<store, question, schema_info, sql_query, result, escaped, genText,
                   exec, dropped, afterDrop, initRuns, initFrom, writes,
                   storeAtClick>>

\* run.py:166-167: one get_table_schema call per selected table
SchemaStage ==
    /\ pc = "schema"
    /\ \E conns \in [1..Len(relevant_tables) -> ConnectOutcomes] :
       \E schemas \in {[i \in 1..Len(relevant_tables) |-> get_table_schema(conns[i], store)]} :
       \E bad \in {{i \in 1..Len(relevant_tables) : schemas[i].raised # "none"}} :
            /\ calls' = calls \o [i \in 1..(IF bad = {} THEN Len(relevant_tables)
                                             ELSE Min(bad)) |-> "get_table_schema"]
            /\ IF bad = {}
               THEN /\ schema_info' = scoped_schema(relevant_tables, schemas)
                    /\ pc' = "generate"
                    /\ UNCHANGED <<raised, escaped>>
               ELSE /\ raised' = raised \cup {"get_table_schema"}
                    /\ escaped' = schemas[Min(bad)].raised
                    /\ pc' = "done"
                    /\ UNCHANGED schema_info
    /\ UNCHANGED <<store, question, relevant_tables, sql_query, result, ui, sel, genText,
                   exec, dropped, afterDrop, initRuns, initFrom, writes,
                   storeAtClick>>

\* run.py:170-172
GenerateStage ==
    /\ pc = "generate"
    /\ \E response \in GenResponses :
       \E query \in {generate_sql_query(response)} :
            /\ genText' = response
            /\ sql_query' = query
            /\ calls' = Append(calls, "generate_sql_query")
            /\ IF truthy(query)
               THEN /\ ui' = Ui("code", query.text)
                    /\ pc' = "execute"
               ELSE /\ pc' = "done"
                    /\ UNCHANGED ui
    /\ UNCHANGED <<store, question, relevant_tables, schema_info, result, raised, escaped,
                   sel, exec, dropped, afterDrop, initRuns, initFrom, writes,
                   storeAtClick>>

\* run.py:175-190
ExecuteStage ==
    /\ pc = "execute"
    /\ \E conn \in ConnectOutcomes :
       \E out \in {execute_sql_query(sql_query.text, conn, store)} :
            /\ out.store # store => writes < MaxWrites
            /\ writes' = IF out.store # store THEN writes + 1 ELSE writes
            /\ result' = out.result
            /\ store' = out.store
            /\ calls' = Append(calls, "execute_sql_query")
            /\ exec' = [sql |-> sql_query.text, verb |-> out.run.verb,
                        rowcount |-> out.run.rowcount, exc |-> out.exc,
                        raw |-> out.run.raw,
                        done |-> out.run.verb # "NONE" /\ out.exc = NoExc,
                        committed |-> out.store.tables = out.run.tables]
            /\ dropped' = /\ sql_query.text = DropStudent
                           /\ store = Bootstrapped
                           /\ out.result # None
                           /\ out.result.success
            /\ IF out.result = None
               THEN \* result['success'] on None
                    /\ escaped' = "TypeError"
                    /\ UNCHANGED ui
               ELSE /\ escaped' = "none"
                    /\ ui' = IF out.result.success
                             THEN Ui("success", out.result.message)
                             ELSE Ui("error", out.result.error)
    /\ pc' = "done"
    /\ UNCHANGED <<question, relevant_tables, schema_info, sql_query, raised, sel, genText,
                   afterDrop, initRuns, initFrom, storeAtClick>>

Next ==
    \/ InitDatabase
    \/ Click
    \/ IdentifyStage
    \/ SchemaStage
    \/ GenerateStage
    \/ ExecuteStage

Spec == Init /\ [][Next]_vars

(***************************************************************************)
(* Properties                                                              *)
(***************************************************************************)
Called(f) == \E i \in 1..Len(calls) : calls[i] = f

CountCalls(f) == Cardinality({i \in 1..Len(calls) : calls[i] = f})

FirstToken(text) == IF split(text) = << >> THEN << >> ELSE split(text)[1]

endswith(s, suffix) ==
    /\ Len(suffix) <= Len(s)
    /\ SubSeq(s, Len(s) - Len(suffix) + 1, Len(s)) = suffix

IsSuccess(r) == "success" \in DOMAIN r /\ r.success

IsFailure(r) == "success" \in DOMAIN r /\ ~r.success

WellFormed(r) ==
    \/ IsSuccess(r) /\ DOMAIN r = {"success", "data", "message"}
    \/ IsSuccess(r) /\ DOMAIN r = {"success", "message"}
    \/ IsFailure(r) /\ DOMAIN r = {"success", "error"}

\* C1: whenever the first whitespace-delimited token of the cleaned generator
\* output, upper-cased, is not one of the seven SQL verbs, generate_sql_query
\* returns None and execute_sql_query is not called in that request.
C1_GateOnFirstToken ==
    (genText.ok /\ upper(FirstToken(clean_query(genText.text))) \notin Keywords)
        => (sql_query = None /\ ~Called("execute_sql_query"))

\* C2: every call of execute_sql_query on a query that passed the gate returns
\* one of the three result shapes, never None, and the handler's read of
\* result['success'] raises nothing.
C2_ExecutionResultWellFormed ==
    Called("execute_sql_query") => (WellFormed(result) /\ escaped = "none")

\* C3: when the model answers with text and the set K of known tables is not
\* empty, identify_relevant_tables returns a non-empty list of members of K,
\* and returns K itself when no trimmed comma-separated entry is in K.
C3_SelectionWithinKnownTables ==
    (sel.response.ok /\ sel.available # << >>)
        => /\ relevant_tables # << >>
           /\ Range(relevant_tables) \subseteq Range(sel.available)
           /\ (Range(parse_tables(sel.response.text)) \cap Range(sel.available) = {})
                 => relevant_tables = sel.available

C3_Witness ==
    /\ sel.response.ok
    /\ Len(sel.available) = 2
    /\ Range(parse_tables(sel.response.text)) \cap Range(sel.available) = {}
    /\ relevant_tables = sel.available

\* C4: no exception propagates out of a stage function, get_table_schema
\* included, and none leaves the handler.
C4_NoExceptionEscapes == raised = {} /\ escaped = "none"

\* C5 as claimed: the request that follows DROP TABLE STUDENT on the
\* bootstrapped store, asked the SELECT question, reaches execute_sql_query,
\* which returns a failure result, and nothing leaves the handler.
C5_SelectAfterDropReachesExecutor ==
    (afterDrop /\ pc = "done" /\ question = SelectQuestion)
        => (Called("execute_sql_query") /\ IsFailure(result) /\ escaped = "none")

\* C5 as amended: the request that follows DROP TABLE STUDENT on the
\* bootstrapped store stops at table selection: identify_relevant_tables
\* returns the empty list, neither generate_sql_query nor execute_sql_query is
\* called, the handler reports "No relevant tables identified", and nothing
\* leaves the handler.
C5_SelectAfterDropStopsAtSelection ==
    (afterDrop /\ pc # "identify")
        => /\ pc = "done"
           /\ relevant_tables = << >>
           /\ ~Called("generate_sql_query")
           /\ ~Called("execute_sql_query")
           /\ ui = Ui("error", <<"N","o"," ","r","e","l","e","v","a","n","t"," ","t","a","b","l","e","s"," ","i","d","e","n","t","i","f","i","e","d">>)
           /\ escaped = "none"

C5_Witness ==
    /\ afterDrop
    /\ pc = "done"
    /\ question = SelectQuestion
    /\ store.tables = << >>
    /\ sel.response = Response(<<"S","T","U","D","E","N","T">>)

\* C6 as claimed: when the store rejects the statement, the failure result's
\* error field is the store's error text, nothing added or removed.
C6_ErrorTextVerbatim ==
    (exec # NoExec /\ exec.raw # NoExc)
        => (IsFailure(result) /\ result.error = exec.raw.text)

\* C6 as amended: when the store rejects the statement, execute_sql_query
\* returns a failure result whose error field is the text of the exception it
\* caught, prefixed with "Database error: " when that exception is a
\* sqlite3.OperationalError and with "Unexpected error: " otherwise; the
\* field ends with the store's error text and is never that text alone.
C6_ErrorTextPrefixed ==
    (exec # NoExec /\ exec.raw # NoExc)
        => /\ IsFailure(result)
           /\ result.error =
                 (IF exec.exc.cls = "sqlite3.OperationalError"
                  THEN <<"D","a","t","a","b","a","s","e"," ","e","r","r","o","r",":"," ">> ELSE <<"U","n","e","x","p","e","c","t","e","d"," ","e","r","r","o","r",":"," ">>) \o exec.exc.text
           /\ endswith(result.error, exec.raw.text)
           /\ result.error # exec.raw.text

C6_Witness ==
    /\ exec # NoExec
    /\ exec.raw = IntegrityError(<<"U","N","I","Q","U","E"," ","c","o","n","s","t","r","a","i","n","t"," ","f","a","i","l","e","d",":"," ","C","O","U","R","S","E",".","I","D">>)
    /\ result = [success |-> FALSE,
                 error |-> <<"U","n","e","x","p","e","c","t","e","d"," ","e","r","r","o","r",":"," ","U","N","I","Q","U","E"," ","c","o","n","s","t","r","a","i","n","t"," ","f","a","i","l","e","d",":"," ","C","O","U","R","S","E",".","I","D">>]

\* C7 as claimed: when the model answers the query-generation prompt with
\* "I cannot determine a query", generate_sql_query returns None, the request
\* ends before execution and has made no access to the store.
C7_ProseMeansNoStoreAccess ==
    (genText = Response(CannotDetermine))
        => /\ sql_query = None
           /\ pc = "done"
           /\ ~Called("execute_sql_query")
           /\ ~Called("get_table_schema")

\* C7 as amended: when the model answers the query-generation prompt with
\* "I cannot determine a query", generate_sql_query returns None and the
\* request ends before execution: execute_sql_query is not called and the store
\* is as the request found it; the store accesses of that request are the
\* schema reads made before generation, one by identify_relevant_tables and one
\* per selected table.
C7_ProseHaltsBeforeExecution ==
    (genText = Response(CannotDetermine))
        => /\ sql_query = None
           /\ pc = "done"
           /\ ~Called("execute_sql_query")
           /\ exec = NoExec
           /\ store = storeAtClick
           /\ escaped = "none"
           /\ CountCalls("get_table_schema") = 1 + Len(relevant_tables)
           /\ calls[Len(calls)] = "generate_sql_query"

C7_Witness ==
    /\ genText = Response(CannotDetermine)
    /\ pc = "done"
    /\ sql_query = None
    /\ CountCalls("get_table_schema") = 3

\* C8: after init_database has run, once or several times in a row and whatever
\* the store was before, table STUDENT holds exactly the five sample rows, each
\* once.
C8_BootstrapLeavesFiveRows ==
    (initRuns > 0)
        => /\ store.exists
           /\ HasTable(store.tables, STUDENT)
           /\ Cardinality({i \in 1..Len(store.tables) : store.tables[i].name = STUDENT}) = 1
           /\ RowsOf(store.tables, STUDENT) = sample_data

C8_Witness ==
    /\ initRuns = 2
    /\ initFrom = "changed"
    /\ RowsOf(store.tables, STUDENT) = sample_data

\* C9: whenever the store has executed an INSERT, UPDATE or DELETE statement
\* without error, the change is committed and execute_sql_query returns a
\* success result whose message reports the store's rowcount (0 included).
C9_DmlCountReported ==
    (exec # NoExec /\ exec.done /\ exec.verb \in {"INSERT", "UPDATE", "DELETE"})
        => /\ exec.committed
           /\ IsSuccess(result)
           /\ \E did \in {<<"i","n","s","e","r","t","e","d">>, <<"u","p","d","a","t","e","d">>, <<"d","e","l","e","t","e","d">>} :
                 result.message = <<"S","u","c","c","e","s","s","f","u","l","l","y"," ">> \o did \o <<" ">>
                                    \o str_int(exec.rowcount) \o <<" ","r","o","w","(","s",")">>

\* C10: when the model call of identify_relevant_tables fails, the function
\* returns the empty list and raises nothing, and the request ends there:
\* neither generate_sql_query nor execute_sql_query is called and the store is
\* as the request found it.
C10_ModelErrorStopsPipeline ==
    (sel.response = ModelError)
        => /\ relevant_tables = << >>
           /\ raised = {}
           /\ escaped = "none"
           /\ pc = "done"
           /\ ~Called("generate_sql_query")
           /\ ~Called("execute_sql_query")
           /\ store = storeAtClick

C10_Witness ==
    /\ sel.response = ModelError
    /\ sel.available = <<STUDENT>>
    /\ pc = "done"
    /\ ui = Ui("error", <<"N","o"," ","r","e","l","e","v","a","n","t"," ","t","a","b","l","e","s"," ","i","d","e","n","t","i","f","i","e","d">>)
====
